---- MODULE Spec2Model ----
(***************************************************************************)
(* Model of src/cli/install.ts: the installation orchestration of          *)
(* oh-my-opencode-slim.  One run of install(args) is modelled, in both     *)
(* modes.  The collaborators of ./config-manager are the environment: each *)
(* call returns a value chosen nondeterministically when it completes.     *)
(***************************************************************************)
EXTENDS Integers, Sequences, FiniteSets, TLC

VARIABLES
  args,        \* InstallArgs handed to install()
  pc,          \* position of the single thread of control
  validation,  \* install: result of validateNonTuiArgs
  detected,    \* install (TUI): sequence holding the DetectedConfig read at line 258
  initial,     \* runTuiMode: detectedToInitialValues(detected)
  answers,     \* runTuiMode: awaited results of askYesNo, in question order
  value,       \* askYesNo: sequence holding the chunk returned by reader.read()
  locked,      \* Bun.stdin reader lock held
  eof,         \* Bun.stdin has reported end of stream
  input,       \* the chunks Bun.stdin delivers during the run, in order
  stdin,       \* the chunks of input not read yet
  config,      \* sequence holding the resolved InstallConfig
  isUpdate,    \* runInstall: sequence holding detected.isInstalled (line 155)
  totalSteps,  \* runInstall: totalSteps (0 before line 159)
  step,        \* runInstall: step counter (0 before line 160)
  calls,       \* collaborator calls begun, in order: [fn, arg]
  returns,     \* collaborator calls completed, in order: [fn, val]
  inflight,    \* collaborator calls begun and not yet completed
  out,         \* lines written to the output sink, in order
  exitCode     \* sequence holding the value install() returned

vars == <<args, pc, validation, detected, initial, answers, value, locked, eof,
          input, stdin, config, isUpdate, totalSteps, step, calls, returns, inflight, out,
          exitCode>>

-----------------------------------------------------------------------------
(* Input domains *)

Absent == "undefined"

\* values a --flag can carry: absent, the two accepted literals, others
ArgValues == {Absent, "yes", "no", "maybe", "YES", ""}

\* values of the flags drawn for TUI runs, where install never reads them
TuiArgValues == {Absent, "yes"}

InstallArgs ==
  [tui : {FALSE}, antigravity : ArgValues, openai : ArgValues,
   cerebras : ArgValues]
  \cup [tui : {TRUE}, antigravity : TuiArgValues, openai : {Absent},
        cerebras : {Absent}]

InstallConfig ==
  [hasAntigravity : BOOLEAN, hasOpenAI : BOOLEAN, hasCerebras : BOOLEAN]

DetectedConfig ==
  [isInstalled : BOOLEAN, hasAntigravity : BOOLEAN, hasOpenAI : BOOLEAN,
   hasCerebras : BOOLEAN]

\* chunks a read of stdin can deliver, as sequences of characters
Chunks ==
  { << >>,
    <<"\n">>,
    <<"Y">>,
    <<"N", "O", "\n">>,
    <<"y", "\n">>,
    <<"Y", "E", "S", "\n">>,
    <<" ", "N", "o", " ", "\n">>,
    <<"n", "\n">>,
    <<"m", "a", "y", "b", "e", "\n">>,
    <<"y", "\n", "n", "\n", "y", "\n">> }

\* a terminal delivers one line per chunk
LineChunks == { <<"\n">>, <<"y", "\n">>, <<"n", "\n">> }

\* sequences of at most three elements of S, one per question of runTuiMode
UpToThree(S) ==
  {<< >>} \cup {<<a>> : a \in S} \cup {<<a, b>> : a, b \in S}
  \cup {<<a, b, c>> : a, b, c \in S}

\* what stdin delivers during a run: a terminal's lines, possibly ending
\* early; any chunk at each question; a pipe delivering several lines in
\* one chunk
Streams ==
  UpToThree(LineChunks)
  \cup {<<c>> : c \in Chunks}
  \cup {<<(<<"\n">>), c, (<<"n", "\n">>)>> : c \in Chunks}
  \cup {<<(<<"n", "\n">>), (<<"y", "\n">>), c>> : c \in Chunks}
  \cup { << <<"y", "\n", "n", "\n">>, <<"y", "\n">> >>,
         << <<"y", "\n">>, <<"n", "\n", "y", "\n">> >> }

\* a non-interactive run never reads stdin
NoInput == {<< >>}

-----------------------------------------------------------------------------
(* Output sink *)

Ev(t, s, n, m) == [t |-> t, step |-> s, total |-> n, msg |-> m]

printHeader(u) == << Ev("header", 0, 0, <<IF u THEN "Update" ELSE "Install">>) >>

printStep(s, total, message) == << Ev("step", s, total, <<message>>) >>

printSuccess(message) == << Ev("success", 0, 0, message) >>

printError(message) == << Ev("error", 0, 0, message) >>

printInfo(message) == << Ev("info", 0, 0, message) >>

printWarning(message) == << Ev("warning", 0, 0, message) >>

consoleLog(t, message) == << Ev(t, 0, 0, message) >>

Mark(b) == IF b THEN "check" ELSE "circle"

formatConfigSummary(c) ==
  << <<"Configuration Summary">>,
     <<>>,
     <<Mark(c.hasAntigravity), "Antigravity">>,
     <<Mark(c.hasOpenAI), "OpenAI">>,
     <<Mark(c.hasCerebras), "Cerebras">> >>

-----------------------------------------------------------------------------
(* Input Resolver *)

YesNo == {"yes", "no"}

\* the messages one flag contributes to errors (lines 71-75, 77-81, 83-87)
FlagErrors(name, v) ==
  IF v = Absent THEN << <<"required", name>> >>
  ELSE IF v \notin YesNo THEN << <<"invalid", name, v>> >>
  ELSE << >>

\* validateNonTuiArgs checking the values only when no flag is missing
validateNonTuiArgsMissingFirst(a) ==
  LET missing == (IF a.antigravity = Absent
                    THEN << <<"required", "antigravity">> >> ELSE << >>)
                 \o (IF a.openai = Absent
                       THEN << <<"required", "openai">> >> ELSE << >>)
                 \o (IF a.cerebras = Absent
                       THEN << <<"required", "cerebras">> >> ELSE << >>)
      errors == IF missing # << >> THEN missing
                ELSE FlagErrors("antigravity", a.antigravity)
                     \o FlagErrors("openai", a.openai)
                     \o FlagErrors("cerebras", a.cerebras)
  IN [valid |-> Len(errors) = 0, errors |-> errors]

\* validateNonTuiArgs stopping at the first offending flag
validateNonTuiArgsFirstOnly(a) ==
  LET errors == IF FlagErrors("antigravity", a.antigravity) # << >>
                  THEN FlagErrors("antigravity", a.antigravity)
                ELSE IF FlagErrors("openai", a.openai) # << >>
                  THEN FlagErrors("openai", a.openai)
                ELSE FlagErrors("cerebras", a.cerebras)
  IN [valid |-> Len(errors) = 0, errors |-> errors]

validateNonTuiArgs(a) ==
  LET errors == FlagErrors("antigravity", a.antigravity)
                \o FlagErrors("openai", a.openai)
                \o FlagErrors("cerebras", a.cerebras)
  IN [valid |-> Len(errors) = 0, errors |-> errors]

argsToConfig(a) ==
  [hasAntigravity |-> a.antigravity = "yes",
   hasOpenAI |-> a.openai = "yes",
   hasCerebras |-> a.cerebras = "yes"]

\* detectedToInitialValues seeding OpenAI and Cerebras from each other
detectedToInitialValuesSwapped(d) ==
  [antigravity |-> IF d.hasAntigravity THEN "yes" ELSE "no",
   openai |-> IF d.hasCerebras THEN "yes" ELSE "no",
   cerebras |-> IF d.hasOpenAI THEN "yes" ELSE "no"]

detectedToInitialValues(d) ==
  [antigravity |-> IF d.hasAntigravity THEN "yes" ELSE "no",
   openai |-> IF d.hasOpenAI THEN "yes" ELSE "no",
   cerebras |-> IF d.hasCerebras THEN "yes" ELSE "no"]

-----------------------------------------------------------------------------
(* Initial state: install(args) has been called, nothing has run *)

NoValidation == [valid |-> TRUE, errors |-> << >>]

Init ==
  /\ args \in InstallArgs
  /\ input \in (IF args.tui THEN Streams ELSE NoInput)
  /\ stdin = input
  /\ pc = "install"
  /\ validation = NoValidation
  /\ detected = << >>
  /\ initial = << >>
  /\ answers = << >>
  /\ value = << >>
  /\ locked = FALSE
  /\ eof = FALSE
  /\ config = << >>
  /\ isUpdate = << >>
  /\ totalSteps = 0
  /\ step = 0
  /\ calls = << >>
  /\ returns = << >>
  /\ inflight = {}
  /\ out = << >>
  /\ exitCode = << >>

\* calls after a collaborator call begins
Begin(fn, arg) == Append(calls, [fn |-> fn, arg |-> arg])

\* returns after a collaborator call completes with val: the boolean
\* returned, the success flag of a StepResult, isInstalled of a
\* DetectedConfig, whether a version string was returned
Complete(fn, val) == Append(returns, [fn |-> fn, val |-> val])

Emit(lines) == out' = out \o lines

ReturnCode(n) == exitCode' = <<n>> /\ pc' = "done"

Bullets(errors) ==
  [i \in 1..Len(errors) |-> Ev("bullet", 0, 0, errors[i])]

-----------------------------------------------------------------------------
(* install, non-TUI mode (lines 236-255) *)

\* InstallValidationFailed reading the detected configuration for its header
InstallValidationFailedDetects ==
  /\ pc = "install"
  /\ ~args.tui
  /\ ~validateNonTuiArgs(args).valid
  /\ validation' = validateNonTuiArgs(args)
  /\ \E d \in DetectedConfig :
       /\ calls' = Begin("detectCurrentConfig", << >>)
       /\ returns' = Complete("detectCurrentConfig", d.isInstalled)
       /\ Emit(printHeader(d.isInstalled)
               \o printError(<<"Validation failed:">>)
               \o Bullets(validation'.errors)
               \o printInfo(<<"Usage">>))
  /\ ReturnCode(1)
  /\ UNCHANGED <<args, input, stdin, detected, initial, answers, value, locked, eof, config,
                 isUpdate, totalSteps, step, inflight>>

InstallValidationFailed ==
  /\ pc = "install"
  /\ ~args.tui
  /\ ~validateNonTuiArgs(args).valid
  /\ validation' = validateNonTuiArgs(args)
  /\ Emit(printHeader(FALSE)
          \o printError(<<"Validation failed:">>)
          \o Bullets(validation'.errors)
          \o printInfo(<<"Usage">>))
  /\ ReturnCode(1)
  /\ UNCHANGED <<args, input, stdin, detected, initial, answers, value, locked, eof, config,
                 isUpdate, totalSteps, step, calls, returns, inflight>>

InstallNonTui ==
  /\ pc = "install"
  /\ ~args.tui
  /\ validateNonTuiArgs(args).valid
  /\ validation' = validateNonTuiArgs(args)
  /\ config' = <<argsToConfig(args)>>
  /\ pc' = "runInstall"
  /\ UNCHANGED <<args, input, stdin, detected, initial, answers, value, locked, eof,
                 isUpdate, totalSteps, step, calls, returns, inflight, out,
                 exitCode>>

-----------------------------------------------------------------------------
(* install, TUI mode (lines 257-277) *)

\* lines 258-263, up to the await of isOpenCodeInstalled
InstallTui ==
  /\ pc = "install"
  /\ args.tui
  /\ \E d \in DetectedConfig :
       /\ detected' = <<d>>
       /\ calls' = Append(Begin("detectCurrentConfig", << >>),
                          [fn |-> "isOpenCodeInstalled", arg |-> << >>])
       /\ returns' = Complete("detectCurrentConfig", d.isInstalled)
       /\ Emit(printHeader(d.isInstalled)
               \o printStep(1, 1, "Checking OpenCode installation..."))
  /\ inflight' = inflight \cup {"isOpenCodeInstalled"}
  /\ pc' = "tuiPreflight"
  /\ UNCHANGED <<args, input, stdin, validation, initial, answers, value, locked, eof,
                 config, isUpdate, totalSteps, step, exitCode>>

\* lines 263-268
TuiPreflightReturn ==
  /\ pc = "tuiPreflight"
  /\ \E installed \in BOOLEAN :
       /\ returns' = Complete("isOpenCodeInstalled", installed)
       /\ IF ~installed
            THEN /\ Emit(printError(<<"OpenCode is not installed on this system.">>)
                         \o printInfo(<<"Visit https://opencode.ai/docs">>))
                 /\ ReturnCode(1)
            ELSE /\ pc' = "tuiVersionCall"
                 /\ UNCHANGED <<out, exitCode>>
  /\ inflight' = inflight \ {"isOpenCodeInstalled"}
  /\ UNCHANGED <<args, input, stdin, validation, detected, initial, answers, value, locked,
                 eof, config, isUpdate, totalSteps, step, calls>>

\* line 270, the call
TuiVersionCall ==
  /\ pc = "tuiVersionCall"
  /\ calls' = Begin("getOpenCodeVersion", << >>)
  /\ inflight' = inflight \cup {"getOpenCodeVersion"}
  /\ pc' = "tuiVersion"
  /\ UNCHANGED <<args, input, stdin, validation, detected, initial, answers, value, locked,
                 eof, config, isUpdate, totalSteps, step, returns, out,
                 exitCode>>

\* lines 270-274, the await completes; runTuiMode is entered (line 129)
TuiVersionReturn ==
  /\ pc = "tuiVersion"
  /\ \E version \in {Absent, "1.0.0"} :
       /\ returns' = Complete("getOpenCodeVersion", version # Absent)
       /\ Emit(printSuccess(<<"OpenCode detected", version>>))
  /\ inflight' = inflight \ {"getOpenCodeVersion"}
  /\ initial' = <<detectedToInitialValues(detected[1])>>
  /\ pc' = "ask1"
  /\ UNCHANGED <<args, input, stdin, validation, detected, answers, value, locked, eof,
                 config, isUpdate, totalSteps, step, calls, exitCode>>

-----------------------------------------------------------------------------
(* Interactive Prompter: askYesNo (lines 112-126), runTuiMode (128-151) *)

Questions == <<"antigravity", "openai", "cerebras">>

AskPc == <<"ask1", "ask2", "ask3">>
ReadPc == <<"read1", "read2", "read3">>
AnswerPc == <<"answer1", "answer2", "answer3">>

Whitespace == {" ", "\n", "\t", "\r"}

RECURSIVE trimStart(_)
trimStart(s) ==
  IF s # << >> /\ Head(s) \in Whitespace THEN trimStart(Tail(s)) ELSE s

RECURSIVE trimEnd(_)
trimEnd(s) ==
  IF s # << >> /\ s[Len(s)] \in Whitespace
    THEN trimEnd(SubSeq(s, 1, Len(s) - 1))
    ELSE s

trim(s) == trimEnd(trimStart(s))

Upper == <<"Y", "E", "S", "N", "O">>
Lower == <<"y", "e", "s", "n", "o">>

lowerChar(c) ==
  IF \E i \in 1..Len(Upper) : Upper[i] = c
    THEN Lower[CHOOSE i \in 1..Len(Upper) : Upper[i] = c]
    ELSE c

\* toLowerCase leaving the text as typed
toLowerCaseKeepsCase(s) == s

toLowerCase(s) == [i \in 1..Len(s) |-> lowerChar(s[i])]

\* lines 120-125: v is the sequence holding the chunk read, empty when undefined
askYesNoResult(v, defaultValue) ==
  LET answer == IF v # << >> THEN toLowerCase(trim(v[1])) ELSE << >>
  IN IF answer = << >> \/ answer = <<"\n">> THEN defaultValue
     ELSE IF answer = <<"y">> \/ answer = <<"y", "e", "s">> THEN "yes"
     ELSE IF answer = <<"n">> \/ answer = <<"n", "o">> THEN "no"
     ELSE defaultValue

DefaultOf(k) == initial[1][Questions[k]]

\* lines 131/138/142, 113-116: question header, prompt, reader acquired
AskBegin(k) ==
  /\ pc = AskPc[k]
  /\ Emit(consoleLog("question", <<k, 3>>)
          \o consoleLog("prompt", <<Questions[k], DefaultOf(k)>>))
  /\ IF locked
       THEN pc' = "thrown" /\ UNCHANGED locked
       ELSE pc' = ReadPc[k] /\ locked' = TRUE
  /\ UNCHANGED <<args, input, stdin, validation, detected, initial, answers, value, eof,
                 config, isUpdate, totalSteps, step, calls, returns, inflight,
                 exitCode>>

\* lines 117-118: the read completes with the next chunk, or with no data
\* when the stream has ended
AskRead(k) ==
  /\ pc = ReadPc[k]
  /\ IF stdin # << >>
       THEN /\ value' = <<Head(stdin)>>
            /\ stdin' = Tail(stdin)
            /\ UNCHANGED eof
       ELSE /\ value' = << >>
            /\ eof' = TRUE
            /\ UNCHANGED stdin
  /\ locked' = FALSE
  /\ pc' = AnswerPc[k]
  /\ UNCHANGED <<args, input, validation, detected, initial, answers, config,
                 isUpdate, totalSteps, step, calls, returns, inflight, out,
                 exitCode>>

\* line 117: the read rejects; the exception leaves askYesNo, runTuiMode and
\* install, and line 118 is not reached
AskReadThrows(k) ==
  /\ pc = ReadPc[k]
  /\ ~eof
  /\ pc' = "thrown"
  /\ UNCHANGED <<args, input, stdin, validation, detected, initial, answers, value, locked,
                 eof, config, isUpdate, totalSteps, step, calls, returns,
                 inflight, out, exitCode>>

\* AskReturn reading again until the answer is recognised
AskReturnReadsAgain(k) ==
  /\ pc = AnswerPc[k]
  /\ value' = << >>
  /\ IF askYesNoResult(value, "yes") = askYesNoResult(value, "no")
       THEN /\ answers' = Append(answers, askYesNoResult(value, DefaultOf(k)))
            /\ Emit(consoleLog("blank", << >>))
            /\ pc' = IF k < 3 THEN AskPc[k + 1] ELSE "tuiConfig"
       ELSE /\ pc' = ReadPc[k]
            /\ UNCHANGED <<answers, out>>
  /\ UNCHANGED <<args, input, stdin, validation, detected, initial, locked, eof,
                 config, isUpdate, totalSteps, step, calls, returns, inflight,
                 exitCode>>

\* lines 120-125 and the console.log() after the await in runTuiMode
AskReturn(k) ==
  /\ pc = AnswerPc[k]
  /\ answers' = Append(answers, askYesNoResult(value, DefaultOf(k)))
  /\ value' = << >>
  /\ Emit(consoleLog("blank", << >>))
  /\ pc' = IF k < 3 THEN AskPc[k + 1] ELSE "tuiConfig"
  /\ UNCHANGED <<args, input, stdin, validation, detected, initial, locked, eof, config,
                 isUpdate, totalSteps, step, calls, returns, inflight,
                 exitCode>>

\* lines 146-150 and 274-277
RunTuiModeReturn ==
  /\ pc = "tuiConfig"
  /\ config' = << [hasAntigravity |-> answers[1] = "yes",
                   hasOpenAI |-> answers[2] = "yes",
                   hasCerebras |-> answers[3] = "yes"] >>
  /\ pc' = "runInstall"
  /\ UNCHANGED <<args, input, stdin, validation, detected, initial, answers, value, locked,
                 eof, isUpdate, totalSteps, step, calls, returns, inflight,
                 out, exitCode>>

-----------------------------------------------------------------------------
(* Step Orchestrator: runInstall (lines 153-233) *)

Cfg == config[1]

StepResults == BOOLEAN

\* lines 154-164, up to the await of isOpenCodeInstalled
RunInstallEnter ==
  /\ pc = "runInstall"
  /\ \E d \in DetectedConfig :
       /\ isUpdate' = <<d.isInstalled>>
       /\ calls' = Append(Begin("detectCurrentConfig", << >>),
                          [fn |-> "isOpenCodeInstalled", arg |-> << >>])
       /\ returns' = Complete("detectCurrentConfig", d.isInstalled)
       /\ totalSteps' = IF Cfg.hasAntigravity THEN 5 ELSE 3
       /\ Emit(printHeader(d.isInstalled)
               \o printStep(1, totalSteps', "Checking OpenCode installation..."))
  /\ step' = 2
  /\ inflight' = inflight \cup {"isOpenCodeInstalled"}
  /\ pc' = "preflight"
  /\ UNCHANGED <<args, input, stdin, validation, detected, initial, answers, value, locked,
                 eof, config, exitCode>>

\* lines 164-169
PreflightReturn ==
  /\ pc = "preflight"
  /\ \E installed \in BOOLEAN :
       /\ returns' = Complete("isOpenCodeInstalled", installed)
       /\ IF ~installed
            THEN /\ Emit(printError(<<"OpenCode is not installed on this system.">>)
                         \o printInfo(<<"Visit https://opencode.ai/docs">>))
                 /\ ReturnCode(1)
            ELSE /\ pc' = "versionCall"
                 /\ UNCHANGED <<out, exitCode>>
  /\ inflight' = inflight \ {"isOpenCodeInstalled"}
  /\ UNCHANGED <<args, input, stdin, validation, detected, initial, answers, value, locked,
                 eof, config, isUpdate, totalSteps, step, calls>>

\* line 171, the call
VersionCall ==
  /\ pc = "versionCall"
  /\ calls' = Begin("getOpenCodeVersion", << >>)
  /\ inflight' = inflight \cup {"getOpenCodeVersion"}
  /\ pc' = "version"
  /\ UNCHANGED <<args, input, stdin, validation, detected, initial, answers, value, locked,
                 eof, config, isUpdate, totalSteps, step, returns, out,
                 exitCode>>

\* lines 171-172
VersionReturn ==
  /\ pc = "version"
  /\ \E version \in {Absent, "1.0.0"} :
       /\ returns' = Complete("getOpenCodeVersion", version # Absent)
       /\ Emit(printSuccess(<<"OpenCode detected", version>>))
  /\ inflight' = inflight \ {"getOpenCodeVersion"}
  /\ pc' = "pluginCall"
  /\ UNCHANGED <<args, input, stdin, validation, detected, initial, answers, value, locked,
                 eof, config, isUpdate, totalSteps, step, calls, exitCode>>

\* PluginCall printing step without incrementing it
PluginCallNoIncrement ==
  /\ pc = "pluginCall"
  /\ Emit(printStep(step, totalSteps, "Adding oh-my-opencode-slim plugin..."))
  /\ UNCHANGED step
  /\ calls' = Begin("addPluginToOpenCodeConfig", << >>)
  /\ inflight' = inflight \cup {"addPluginToOpenCodeConfig"}
  /\ pc' = "plugin"
  /\ UNCHANGED <<args, input, stdin, validation, detected, initial, answers,
                 value, locked, eof, config, isUpdate, totalSteps, returns,
                 exitCode>>

\* lines 175-176, up to the await
PluginCall ==
  /\ pc = "pluginCall"
  /\ Emit(printStep(step, totalSteps, "Adding oh-my-opencode-slim plugin..."))
  /\ step' = step + 1
  /\ calls' = Begin("addPluginToOpenCodeConfig", << >>)
  /\ inflight' = inflight \cup {"addPluginToOpenCodeConfig"}
  /\ pc' = "plugin"
  /\ UNCHANGED <<args, input, stdin, validation, detected, initial, answers, value, locked,
                 eof, config, isUpdate, totalSteps, returns, exitCode>>

\* PluginReturn entering the conditional steps for OpenAI as well
PluginReturnAnyProvider ==
  /\ pc = "plugin"
  /\ \E success \in StepResults :
       /\ returns' = Complete("addPluginToOpenCodeConfig", success)
       /\ IF ~success
            THEN /\ Emit(printError(<<"Failed", "addPluginToOpenCodeConfig">>))
                 /\ ReturnCode(1)
            ELSE /\ Emit(printSuccess(<<"Plugin added">>))
                 /\ pc' = IF Cfg.hasAntigravity \/ Cfg.hasOpenAI
                            THEN "authCall" ELSE "lite"
                 /\ UNCHANGED exitCode
  /\ inflight' = inflight \ {"addPluginToOpenCodeConfig"}
  /\ UNCHANGED <<args, input, stdin, validation, detected, initial, answers, value, locked,
                 eof, config, isUpdate, totalSteps, step, calls>>

\* lines 176-184
PluginReturn ==
  /\ pc = "plugin"
  /\ \E success \in StepResults :
       /\ returns' = Complete("addPluginToOpenCodeConfig", success)
       /\ IF ~success
            THEN /\ Emit(printError(<<"Failed", "addPluginToOpenCodeConfig">>))
                 /\ ReturnCode(1)
            ELSE /\ Emit(printSuccess(<<"Plugin added">>))
                 /\ pc' = IF Cfg.hasAntigravity THEN "authCall" ELSE "lite"
                 /\ UNCHANGED exitCode
  /\ inflight' = inflight \ {"addPluginToOpenCodeConfig"}
  /\ UNCHANGED <<args, input, stdin, validation, detected, initial, answers, value, locked,
                 eof, config, isUpdate, totalSteps, step, calls>>

\* AuthCall with the await missing: runInstall goes on while the call runs
AuthCallNotAwaited ==
  /\ pc = "authCall"
  /\ Emit(printStep(step, totalSteps, "Adding auth plugins..."))
  /\ step' = step + 1
  /\ calls' = Begin("addAuthPlugins", <<Cfg>>)
  /\ inflight' = inflight \cup {"addAuthPlugins"}
  /\ pc' = "provider"
  /\ UNCHANGED <<args, input, stdin, validation, detected, initial, answers, value, locked,
                 eof, config, isUpdate, totalSteps, returns, exitCode>>

\* lines 185-186, up to the await
AuthCall ==
  /\ pc = "authCall"
  /\ Emit(printStep(step, totalSteps, "Adding auth plugins..."))
  /\ step' = step + 1
  /\ calls' = Begin("addAuthPlugins", <<Cfg>>)
  /\ inflight' = inflight \cup {"addAuthPlugins"}
  /\ pc' = "auth"
  /\ UNCHANGED <<args, input, stdin, validation, detected, initial, answers, value, locked,
                 eof, config, isUpdate, totalSteps, returns, exitCode>>

\* AuthReturn with the return after printError missing
AuthReturnNoHalt ==
  /\ pc = "auth"
  /\ \E success \in StepResults :
       /\ returns' = Complete("addAuthPlugins", success)
       /\ IF ~success
            THEN Emit(printError(<<"Failed", "addAuthPlugins">>))
            ELSE Emit(printSuccess(<<"Auth plugins configured">>))
  /\ pc' = "provider"
  /\ inflight' = inflight \ {"addAuthPlugins"}
  /\ UNCHANGED <<args, input, stdin, validation, detected, initial, answers, value, locked,
                 eof, config, isUpdate, totalSteps, step, calls, exitCode>>

\* lines 186-191
AuthReturn ==
  /\ pc = "auth"
  /\ \E success \in StepResults :
       /\ returns' = Complete("addAuthPlugins", success)
       /\ IF ~success
            THEN /\ Emit(printError(<<"Failed", "addAuthPlugins">>))
                 /\ ReturnCode(1)
            ELSE /\ Emit(printSuccess(<<"Auth plugins configured">>))
                 /\ pc' = "provider"
                 /\ UNCHANGED exitCode
  /\ inflight' = inflight \ {"addAuthPlugins"}
  /\ UNCHANGED <<args, input, stdin, validation, detected, initial, answers, value, locked,
                 eof, config, isUpdate, totalSteps, step, calls>>

\* lines 193-199: addProviderConfig is synchronous
ProviderConfig ==
  /\ pc = "provider"
  /\ step' = step + 1
  /\ calls' = Begin("addProviderConfig", <<Cfg>>)
  /\ \E success \in StepResults :
       /\ returns' = Complete("addProviderConfig", success)
       /\ IF ~success
            THEN /\ Emit(printStep(step, totalSteps, "Adding provider configurations...")
                         \o printError(<<"Failed", "addProviderConfig">>))
                 /\ ReturnCode(1)
            ELSE /\ Emit(printStep(step, totalSteps, "Adding provider configurations...")
                         \o printSuccess(<<"Providers configured">>))
                 /\ pc' = "lite"
                 /\ UNCHANGED exitCode
  /\ UNCHANGED <<args, input, stdin, validation, detected, initial, answers, value, locked,
                 eof, config, isUpdate, totalSteps, inflight>>

\* LiteConfig writing the configuration of the flags instead of config
LiteConfigFromArgs ==
  /\ pc = "lite"
  /\ step' = step + 1
  /\ calls' = Begin("writeLiteConfig", <<argsToConfig(args)>>)
  /\ \E success \in StepResults :
       /\ returns' = Complete("writeLiteConfig", success)
       /\ IF ~success
            THEN /\ Emit(printStep(step, totalSteps, "Writing oh-my-opencode-slim configuration...")
                         \o printError(<<"Failed", "writeLiteConfig">>))
                 /\ ReturnCode(1)
            ELSE /\ Emit(printStep(step, totalSteps, "Writing oh-my-opencode-slim configuration...")
                         \o printSuccess(<<"Config written">>))
                 /\ pc' = "summary"
                 /\ UNCHANGED exitCode
  /\ UNCHANGED <<args, input, stdin, validation, detected, initial, answers, value, locked,
                 eof, config, isUpdate, totalSteps, inflight>>

\* LiteConfig with the "no providers" check placed before the write
LiteConfigCheckFirst ==
  /\ pc = "lite"
  /\ IF ~Cfg.hasAntigravity /\ ~Cfg.hasOpenAI /\ ~Cfg.hasCerebras
       THEN /\ Emit(printWarning(<<"No providers configured. At least one provider is required.">>))
            /\ ReturnCode(1)
            /\ UNCHANGED <<step, calls, returns>>
       ELSE /\ step' = step + 1
            /\ calls' = Begin("writeLiteConfig", <<Cfg>>)
            /\ \E success \in StepResults :
                 /\ returns' = Complete("writeLiteConfig", success)
                 /\ IF ~success
                      THEN /\ Emit(printStep(step, totalSteps, "Writing oh-my-opencode-slim configuration...")
                                   \o printError(<<"Failed", "writeLiteConfig">>))
                           /\ ReturnCode(1)
                      ELSE /\ Emit(printStep(step, totalSteps, "Writing oh-my-opencode-slim configuration...")
                                   \o printSuccess(<<"Config written">>))
                           /\ pc' = "summary"
                           /\ UNCHANGED exitCode
  /\ UNCHANGED <<args, input, stdin, validation, detected, initial, answers, value, locked,
                 eof, config, isUpdate, totalSteps, inflight>>

\* lines 203-209: writeLiteConfig is synchronous
LiteConfig ==
  /\ pc = "lite"
  /\ step' = step + 1
  /\ calls' = Begin("writeLiteConfig", <<Cfg>>)
  /\ \E success \in StepResults :
       /\ returns' = Complete("writeLiteConfig", success)
       /\ IF ~success
            THEN /\ Emit(printStep(step, totalSteps, "Writing oh-my-opencode-slim configuration...")
                         \o printError(<<"Failed", "writeLiteConfig">>))
                 /\ ReturnCode(1)
            ELSE /\ Emit(printStep(step, totalSteps, "Writing oh-my-opencode-slim configuration...")
                         \o printSuccess(<<"Config written">>))
                 /\ pc' = "summary"
                 /\ UNCHANGED exitCode
  /\ UNCHANGED <<args, input, stdin, validation, detected, initial, answers, value, locked,
                 eof, config, isUpdate, totalSteps, inflight>>

NoProviders(c) == ~c.hasAntigravity /\ ~c.hasOpenAI /\ ~c.hasCerebras

\* Summary without the "no providers" post-condition
SummaryAlwaysZero ==
  /\ pc = "summary"
  /\ Emit(consoleLog("summary", formatConfigSummary(Cfg))
          \o consoleLog("complete", <<IF isUpdate[1]
                                        THEN "Configuration updated!"
                                        ELSE "Installation complete!">>)
          \o consoleLog("nextSteps", <<"opencode auth login", "opencode">>))
  /\ ReturnCode(0)
  /\ UNCHANGED <<args, input, stdin, validation, detected, initial, answers, value, locked,
                 eof, config, isUpdate, totalSteps, step, calls, returns,
                 inflight>>

\* lines 212-232
Summary ==
  /\ pc = "summary"
  /\ IF NoProviders(Cfg)
       THEN /\ Emit(consoleLog("summary", formatConfigSummary(Cfg))
                    \o printWarning(<<"No providers configured. At least one provider is required.">>))
            /\ ReturnCode(1)
       ELSE /\ Emit(consoleLog("summary", formatConfigSummary(Cfg))
                    \o consoleLog("complete", <<IF isUpdate[1]
                                                  THEN "Configuration updated!"
                                                  ELSE "Installation complete!">>)
                    \o consoleLog("nextSteps", <<"opencode auth login", "opencode">>))
            /\ ReturnCode(0)
  /\ UNCHANGED <<args, input, stdin, validation, detected, initial, answers, value, locked,
                 eof, config, isUpdate, totalSteps, step, calls, returns,
                 inflight>>

Next ==
  \/ InstallValidationFailed
  \/ InstallNonTui
  \/ InstallTui
  \/ TuiPreflightReturn
  \/ TuiVersionCall
  \/ TuiVersionReturn
  \/ \E k \in 1..3 : AskBegin(k)
  \/ \E k \in 1..3 : AskRead(k)
  \/ \E k \in 1..3 : AskReadThrows(k)
  \/ \E k \in 1..3 : AskReturn(k)
  \/ RunTuiModeReturn
  \/ RunInstallEnter
  \/ PreflightReturn
  \/ VersionCall
  \/ VersionReturn
  \/ PluginCall
  \/ PluginReturn
  \/ AuthCall
  \/ AuthReturn
  \/ ProviderConfig
  \/ LiteConfig
  \/ Summary

Spec == Init /\ [][Next]_vars

\* the runtime resumes the single thread of control whenever the promise it
\* awaits settles, and every awaited read or collaborator call settles
FairSpec == Spec /\ WF_vars(Next)
-----------------------------------------------------------------------------
(* Vocabulary of the properties *)

Delegated ==
  {"addPluginToOpenCodeConfig", "addAuthPlugins", "addProviderConfig",
   "writeLiteConfig"}

Invoked(fn) == \E i \in DOMAIN calls : calls[i].fn = fn

TimesInvoked(fn) == Cardinality({i \in DOMAIN calls : calls[i].fn = fn})

Succeeded(fn) == \E i \in DOMAIN returns : returns[i].fn = fn /\ returns[i].val

ReportedFailure(fn) ==
  \E i \in DOMAIN returns : returns[i].fn = fn /\ ~returns[i].val

Shown(t) == \E i \in DOMAIN out : out[i].t = t

Accepted(v) == v = "yes" \/ v = "no"

ArgsAccepted ==
  Accepted(args.antigravity) /\ Accepted(args.openai) /\ Accepted(args.cerebras)

Resolved == config # << >>

SomeProvider ==
  Resolved /\ (config[1].hasAntigravity \/ config[1].hasOpenAI
               \/ config[1].hasCerebras)

-----------------------------------------------------------------------------
(* C1 *)

\* C1: the exit code is 0 exactly when validation passed (or the run is
\* interactive), every isOpenCodeInstalled query returned true, every
\* delegated step invoked reported success and some capability flag of the
\* resolved configuration is true; otherwise it is 1; nothing else is returned.
C1_ExitCode ==
  /\ exitCode \in {<< >>, <<0>>, <<1>>}
  /\ (exitCode # << >>) <=> (pc = "done")
  /\ pc = "done" =>
       ((exitCode = <<0>>) <=>
          /\ args.tui \/ ArgsAccepted
          /\ ~ReportedFailure("isOpenCodeInstalled")
          /\ \A fn \in Delegated : ~ReportedFailure(fn)
          /\ SomeProvider)

C1_Witness ==
  /\ pc = "done"
  /\ exitCode = <<0>>
  /\ ~args.tui
  /\ config[1] = [hasAntigravity |-> TRUE, hasOpenAI |-> FALSE,
                  hasCerebras |-> FALSE]
  /\ TimesInvoked("writeLiteConfig") = 1

-----------------------------------------------------------------------------
(* C2 *)

QuestionAsked == Shown("question") \/ Shown("prompt") \/ answers # << >>

\* C2: if isOpenCodeInstalled resolves false, the run exits 1 and invokes no
\* registration or persistence collaborator, in both modes, and in
\* interactive mode asks no question either.
C2_NotInstalledNothingDone ==
  ReportedFailure("isOpenCodeInstalled") =>
    /\ pc = "done"
    /\ exitCode = <<1>>
    /\ \A fn \in Delegated : ~Invoked(fn)
    /\ args.tui => ~QuestionAsked

-----------------------------------------------------------------------------
(* C3 *)

\* C3: as soon as a delegated step reports success = false the run returns 1
\* and no later collaborator is invoked: the failed call is the last call
\* begun and the last one completed, so nothing compensates or rolls back
\* the steps that succeeded before it.
C3_HaltOnFirstFailure ==
  \A i \in DOMAIN returns :
    (returns[i].fn \in Delegated /\ ~returns[i].val) =>
      /\ pc = "done"
      /\ exitCode = <<1>>
      /\ i = Len(returns)
      /\ calls[Len(calls)].fn = returns[i].fn
      /\ inflight = {}
      /\ \A j \in 1..(i - 1) : returns[j].fn \in Delegated => returns[j].val

C3_Witness ==
  /\ pc = "done"
  /\ ReportedFailure("addProviderConfig")
  /\ Succeeded("addPluginToOpenCodeConfig")
  /\ Succeeded("addAuthPlugins")

-----------------------------------------------------------------------------
(* C4 *)

AllFlagsFalse ==
  /\ Resolved
  /\ ~config[1].hasAntigravity
  /\ ~config[1].hasOpenAI
  /\ ~config[1].hasCerebras

\* C4: with all three capability flags false the run exits 1 even when every
\* step succeeds, and the "no providers configured" failure is reported only
\* after writeLiteConfig has been invoked and has succeeded.
C4_NoProvidersAfterLiteConfig ==
  /\ Shown("warning") =>
       /\ AllFlagsFalse
       /\ Succeeded("writeLiteConfig")
       /\ pc = "done"
       /\ exitCode = <<1>>
  /\ (pc = "done" /\ AllFlagsFalse) =>
       /\ exitCode = <<1>>
       /\ (/\ ~ReportedFailure("isOpenCodeInstalled")
           /\ \A fn \in Delegated : ~ReportedFailure(fn))
            => (Succeeded("writeLiteConfig") /\ Shown("warning"))

C4_Witness ==
  /\ pc = "done"
  /\ AllFlagsFalse
  /\ Shown("warning")
  /\ Succeeded("writeLiteConfig")
  /\ exitCode = <<1>>

-----------------------------------------------------------------------------
(* C5 *)

StepLines == {i \in DOMAIN out : out[i].t = "step"}

\* C5: every progress line of a run that reaches the pipeline shows the same
\* total, from the first progress line on, and that total is 5 when the
\* resolved hasAntigravity is true and 3 otherwise.
C5_TotalFixed ==
  /\ \A i, j \in StepLines : out[i].total = out[j].total
  /\ Resolved =>
       \A i \in StepLines :
         out[i].total = IF config[1].hasAntigravity THEN 5 ELSE 3

-----------------------------------------------------------------------------
(* C6 *)

Flags == {"antigravity", "openai", "cerebras"}

\* positions of the messages of validation.errors that are about flag f
About(f) == {i \in DOMAIN validation.errors : validation.errors[i][2] = f}

\* C6: in non-interactive mode validateNonTuiArgs returns valid = false
\* exactly when some flag is absent or outside {yes, no}, with exactly one
\* message per offending flag ("required" when absent, "Invalid value"
\* otherwise) and no message for a flag holding yes or no.
C6_OneMessagePerOffendingFlag ==
  (~args.tui /\ pc # "install") =>
    /\ validation.valid <=> ArgsAccepted
    /\ Len(validation.errors) = Cardinality({f \in Flags : ~Accepted(args[f])})
    /\ \A f \in Flags :
         /\ Accepted(args[f]) => About(f) = {}
         /\ args[f] = Absent =>
              \E i \in DOMAIN validation.errors :
                About(f) = {i} /\ validation.errors[i] = <<"required", f>>
         /\ (~Accepted(args[f]) /\ args[f] # Absent) =>
              \E i \in DOMAIN validation.errors :
                About(f) = {i} /\ validation.errors[i] = <<"invalid", f, args[f]>>

C6_Witness ==
  /\ ~args.tui
  /\ pc = "done"
  /\ args.antigravity = Absent
  /\ args.openai = "YES"
  /\ args.cerebras = "no"
  /\ Len(validation.errors) = 2

-----------------------------------------------------------------------------
(* C7 *)

\* C7: a non-interactive run whose arguments fail validation returns 1
\* before any side effect: no collaborator is invoked, no progress line is
\* emitted, and every validation message is emitted, followed by the usage
\* hint.
C7_ValidationFailureNoSideEffect ==
  (~args.tui /\ ~ArgsAccepted /\ pc # "install") =>
    /\ pc = "done"
    /\ exitCode = <<1>>
    /\ calls = << >>
    /\ returns = << >>
    /\ inflight = {}
    /\ ~Shown("step")
    /\ Len(out) = Len(validation.errors) + 3
    /\ \A i \in DOMAIN validation.errors :
         out[i + 2].t = "bullet" /\ out[i + 2].msg = validation.errors[i]
    /\ \A f \in Flags :
         ~Accepted(args[f]) =>
           \E i \in DOMAIN out : out[i].t = "bullet" /\ out[i].msg[2] = f
    /\ out[Len(out)] = [t |-> "info", step |-> 0, total |-> 0, msg |-> <<"Usage">>]

C7_Witness ==
  /\ ~args.tui
  /\ pc = "done"
  /\ args.antigravity = "maybe"
  /\ args.openai = Absent
  /\ args.cerebras = ""
  /\ Len(out) = 6
  /\ calls = << >>

-----------------------------------------------------------------------------
(* C8 *)

Rank(fn) ==
  CASE fn = "isOpenCodeInstalled" -> 1
    [] fn = "addPluginToOpenCodeConfig" -> 2
    [] fn = "addAuthPlugins" -> 3
    [] fn = "addProviderConfig" -> 4
    [] fn = "writeLiteConfig" -> 5
    [] OTHER -> 0

InPipelineOrder ==
  \A i, j \in DOMAIN calls :
    (i < j /\ Rank(calls[i].fn) > 0 /\ Rank(calls[j].fn) > 0) =>
      \/ Rank(calls[i].fn) < Rank(calls[j].fn)
      \/ calls[i].fn = "isOpenCodeInstalled" /\ calls[j].fn = "isOpenCodeInstalled"

OneAtATime ==
  /\ Cardinality(inflight) <= 1
  /\ Len(calls) = Len(returns) + Cardinality(inflight)
  /\ InPipelineOrder

\* C8: steps are strictly sequential: at most one delegated call is in
\* flight, a call begins only when every earlier call has completed, the
\* calls occur in the order preflight < addPluginToOpenCodeConfig <
\* addAuthPlugins < addProviderConfig < writeLiteConfig, and addAuthPlugins
\* has completed before addProviderConfig begins.
C8_StrictlySequential ==
  /\ OneAtATime
  /\ [][/\ OneAtATime'
        /\ calls' # calls => (inflight = {} /\ Len(returns) = Len(calls))
        /\ ((\E i \in DOMAIN calls' : calls'[i].fn = "addProviderConfig")
            /\ ~Invoked("addProviderConfig"))
             => (Succeeded("addAuthPlugins") /\ "addAuthPlugins" \notin inflight)]_vars

C8_Witness ==
  /\ pc = "lite"
  /\ Invoked("addProviderConfig")
  /\ Succeeded("addAuthPlugins")

-----------------------------------------------------------------------------
(* C9 *)

\* the delegated steps a finished pipeline run must have invoked, from the
\* resolved hasAntigravity and the results of the steps alone
StepsExpected ==
  IF ReportedFailure("isOpenCodeInstalled") THEN {}
  ELSE {"addPluginToOpenCodeConfig"}
       \cup (IF Succeeded("addPluginToOpenCodeConfig") /\ config[1].hasAntigravity
               THEN {"addAuthPlugins"} ELSE {})
       \cup (IF Succeeded("addAuthPlugins") /\ config[1].hasAntigravity
               THEN {"addProviderConfig"} ELSE {})
       \cup (IF /\ Succeeded("addPluginToOpenCodeConfig")
                /\ config[1].hasAntigravity
                     => (Succeeded("addAuthPlugins") /\ Succeeded("addProviderConfig"))
               THEN {"writeLiteConfig"} ELSE {})

\* C9: addAuthPlugins and addProviderConfig are invoked only if the resolved
\* hasAntigravity is true, addAuthPlugins is invoked when hasAntigravity is
\* true and plugin registration succeeded, and which delegated steps a run
\* invokes depends on hasAntigravity and the step results only, not on
\* hasOpenAI, hasCerebras or the detected configuration.
C9_OnlyAntigravityBranches ==
  /\ (Invoked("addAuthPlugins") \/ Invoked("addProviderConfig")) =>
       (Resolved /\ config[1].hasAntigravity)
  /\ (pc = "done" /\ Resolved) =>
       /\ (config[1].hasAntigravity /\ Succeeded("addPluginToOpenCodeConfig"))
            => Invoked("addAuthPlugins")
       /\ {fn \in Delegated : Invoked(fn)} = StepsExpected

C9_Witness ==
  /\ pc = "done"
  /\ Resolved
  /\ ~config[1].hasAntigravity
  /\ config[1].hasOpenAI
  /\ config[1].hasCerebras
  /\ {fn \in Delegated : Invoked(fn)} = {"addPluginToOpenCodeConfig", "writeLiteConfig"}

-----------------------------------------------------------------------------
(* C10 *)

EarlierStepsSucceeded ==
  /\ Resolved
  /\ ~ReportedFailure("isOpenCodeInstalled")
  /\ \A fn \in Delegated \ {"writeLiteConfig"} : ~ReportedFailure(fn)

\* C10: in every run in which preflight and every earlier delegated step
\* succeeded, writeLiteConfig is invoked exactly once, with the resolved
\* configuration, whether hasAntigravity is true or false and also when all
\* three capability flags are false.
C10_LiteConfigAlwaysWritten ==
  /\ TimesInvoked("writeLiteConfig") <= 1
  /\ \A i \in DOMAIN calls :
       calls[i].fn = "writeLiteConfig" => (Resolved /\ calls[i].arg = <<config[1]>>)
  /\ (pc = "done" /\ EarlierStepsSucceeded) =>
       TimesInvoked("writeLiteConfig") = 1

C10_Witness ==
  /\ pc = "done"
  /\ args.tui
  /\ args.antigravity = "yes"
  /\ AllFlagsFalse
  /\ TimesInvoked("writeLiteConfig") = 1

-----------------------------------------------------------------------------
(* Vocabulary of the prompter properties *)

Blank == {" ", "\n", "\t", "\r"}

\* s without the blank characters at its two ends
Core(s) ==
  LET inked == {i \in DOMAIN s : s[i] \notin Blank}
  IN IF inked = {} THEN << >>
     ELSE SubSeq(s, CHOOSE i \in inked : \A j \in inked : i <= j,
                    CHOOSE i \in inked : \A j \in inked : i >= j)

YesWords ==
  {<<a>> : a \in {"y", "Y"}}
  \cup {<<a, b, c>> : a \in {"y", "Y"}, b \in {"e", "E"}, c \in {"s", "S"}}

NoWords ==
  {<<a>> : a \in {"n", "N"}}
  \cup {<<a, b>> : a \in {"n", "N"}, b \in {"o", "O"}}

\* what the text s answers to a question whose default is d
Meaning(s, d) ==
  IF Core(s) \in YesWords THEN "yes"
  ELSE IF Core(s) \in NoWords THEN "no"
  ELSE d

IsPrompt(e) == e.t = "prompt"

Prompts == SelectSeq(out, IsPrompt)

TimesAsked(k) ==
  Cardinality({i \in DOMAIN out : out[i].t = "prompt" /\ out[i].msg[1] = Questions[k]})

-----------------------------------------------------------------------------
(* C11 *)

\* C11: for every seeded default d, askYesNo returns d when the input is
\* empty after trimming and lower-casing or when the stream yields no data,
\* yes for y or yes in any letter case, no for n or no in any letter case,
\* and d for every other input, without raising an error and without asking
\* again.
C11_AskYesNo ==
  [][\A k \in 1..3 :
       pc = AnswerPc[k] =>
         /\ answers' = Append(answers,
                              IF value = << >> THEN initial[1][Questions[k]]
                              ELSE Meaning(value[1], initial[1][Questions[k]]))
         /\ pc' # "thrown"
         /\ pc' # AskPc[k]
         /\ TimesAsked(k)' = 1]_vars

C11_Witness ==
  /\ pc = "tuiConfig"
  /\ input = << <<"n", "\n">>, <<"y", "\n">>, <<"Y">> >>
  /\ initial[1].cerebras = "no"
  /\ answers = <<"no", "yes", "yes">>

-----------------------------------------------------------------------------
(* C12 *)

YN(b) == IF b THEN "yes" ELSE "no"

\* the three questions with the defaults the detected configuration d seeds
Seeded(d) ==
  << <<"antigravity", YN(d.hasAntigravity)>>,
     <<"openai", YN(d.hasOpenAI)>>,
     <<"cerebras", YN(d.hasCerebras)>> >>

\* the k-th chunk read carries no recognised answer
Unanswered(k) ==
  k > Len(input) \/ Core(input[k]) \notin (YesWords \cup NoWords)

\* C12: an interactive run with the host installed asks exactly three
\* questions, in the order Antigravity, OpenAI, Cerebras, each seeded with
\* the detected flag, the answer to question k sets only capability k, and
\* when every answer is empty or unrecognised the resolved configuration
\* equals the detected flags.
C12_ThreeSeededQuestions ==
  (args.tui /\ detected # << >>) =>
    /\ Len(Prompts) <= 3
    /\ Len(answers) <= Len(Prompts)
    /\ \A k \in DOMAIN Prompts : Prompts[k].msg = Seeded(detected[1])[k]
    /\ \A k \in DOMAIN answers :
         answers[k] = IF k <= Len(input)
                        THEN Meaning(input[k], Seeded(detected[1])[k][2])
                        ELSE Seeded(detected[1])[k][2]
    /\ (pc = "done" /\ returns[2].val) => Resolved
    /\ Resolved =>
         /\ Len(Prompts) = 3
         /\ config[1].hasAntigravity <=> (answers[1] = "yes")
         /\ config[1].hasOpenAI <=> (answers[2] = "yes")
         /\ config[1].hasCerebras <=> (answers[3] = "yes")
         /\ (\A k \in 1..3 : Unanswered(k)) =>
              config[1] = [hasAntigravity |-> detected[1].hasAntigravity,
                           hasOpenAI |-> detected[1].hasOpenAI,
                           hasCerebras |-> detected[1].hasCerebras]

C12_Witness ==
  /\ args.tui
  /\ Resolved
  /\ input = << <<"m", "a", "y", "b", "e", "\n">> >>
  /\ \A k \in 1..3 : Unanswered(k)
  /\ detected[1] = [isInstalled |-> TRUE, hasAntigravity |-> FALSE,
                    hasOpenAI |-> TRUE, hasCerebras |-> TRUE]
  /\ config[1] = [hasAntigravity |-> FALSE, hasOpenAI |-> TRUE,
                  hasCerebras |-> TRUE]

-----------------------------------------------------------------------------
(* C13 *)

RECURSIVE Flatten(_)
Flatten(chunks) ==
  IF chunks = << >> THEN << >> ELSE Head(chunks) \o Flatten(Tail(chunks))

\* the complete lines of the text s, without their newlines
RECURSIVE LinesOf(_)
LinesOf(s) ==
  LET ends == {i \in DOMAIN s : s[i] = "\n"}
  IN IF ends = {} THEN << >>
     ELSE LET e == CHOOSE i \in ends : \A j \in ends : i <= j
          IN <<SubSeq(s, 1, e - 1)>> \o LinesOf(SubSeq(s, e + 1, Len(s)))

InputLines == LinesOf(Flatten(input))

\* C13: each question consumes exactly one line of the input stream: for a
\* stream carrying three lines, however it is cut into chunks, the answer
\* to question k is determined by line k alone.
C13_OneLinePerQuestion ==
  (args.tui /\ Len(InputLines) >= 3 /\ Len(answers) = 3) =>
    \A k \in 1..3 :
      answers[k] = Meaning(InputLines[k], initial[1][Questions[k]])

-----------------------------------------------------------------------------
(* C14 *)

ReadPending == \E k \in 1..3 : pc = ReadPc[k]

\* C14: outside a pending read of askYesNo no reader lock is held, also
\* after a read that fails.
C14_ReaderReleased == ~ReadPending => ~locked

-----------------------------------------------------------------------------
(* C15 *)

HeaderLines == {i \in DOMAIN out : out[i].t = "header"}

\* C15: every run emits its header exactly once, before any progress line,
\* the header says Update exactly when the detected configuration read in
\* the run has isInstalled true, and the closing success message of a run
\* that exits 0 uses the framing of the header.
C15_HeaderOnce ==
  pc = "done" =>
    /\ Cardinality(HeaderLines) = 1
    /\ \A h \in HeaderLines :
         /\ \A i \in DOMAIN out : out[i].t = "step" => h < i
         /\ \A r \in DOMAIN returns :
              returns[r].fn = "detectCurrentConfig" =>
                ((out[h].msg = <<"Update">>) <=> returns[r].val)
         /\ \A i \in DOMAIN out :
              out[i].t = "complete" =>
                ((out[i].msg = <<"Configuration updated!">>)
                   <=> (out[h].msg = <<"Update">>))

-----------------------------------------------------------------------------
(* C16 *)

Collaborators ==
  {"detectCurrentConfig", "isOpenCodeInstalled", "getOpenCodeVersion"}
  \cup Delegated

\* C16: in every run each external collaborator is invoked at most once.
C16_NothingTwice == \A fn \in Collaborators : TimesInvoked(fn) <= 1

-----------------------------------------------------------------------------
(* C17 *)

\* C17: every run terminates: when each interactive read and each delegated
\* call eventually settles, a started run eventually returns an exit code
\* (or ends with the exception of a read that rejected), after at most ten
\* collaborator calls and at most three questions.
C17_Terminates ==
  /\ <>(pc = "done" \/ pc = "thrown")
  /\ [](/\ Len(calls) <= 10
        /\ Cardinality({i \in DOMAIN out : out[i].t = "prompt"}) <= 3)

C17_Witness ==
  /\ pc = "done"
  /\ args.tui
  /\ exitCode = <<0>>
  /\ Len(calls) = 10
  /\ Cardinality({i \in DOMAIN out : out[i].t = "prompt"}) = 3

-----------------------------------------------------------------------------
(* C18 *)

Range(f) == {f[i] : i \in DOMAIN f}

\* the messages the claim expects for flag f holding v
ExpectedMessages(f, v) ==
  IF v = Absent THEN {<<"required", f>>}
  ELSE IF Accepted(v) THEN {}
  ELSE {<<"invalid", f, v>>}

\* the orders in which the three flags can be inspected
Orders == {p \in [1..3 -> Flags] : \A f \in Flags : \E i \in 1..3 : p[i] = f}

NonTuiArgs == {a \in InstallArgs : ~a.tui}

\* C18: the set of messages validateNonTuiArgs returns is a function of the
\* offending fields and their values only: inspecting the fields in any
\* order collects the same set, and the message about one field does not
\* depend on the values of the other two.
C18_OrderIndependent ==
  (~args.tui /\ pc # "install" /\ calls = << >>) =>
    /\ Range(validation.errors) = UNION {ExpectedMessages(f, args[f]) : f \in Flags}
    /\ \A p \in Orders :
         UNION {Range(FlagErrors(p[i], args[p[i]])) : i \in 1..3}
           = Range(validation.errors)
    /\ \A b \in NonTuiArgs : \A f \in Flags :
         b[f] = args[f] =>
           {m \in Range(validateNonTuiArgs(b).errors) : m[2] = f}
             = {m \in Range(validation.errors) : m[2] = f}

C18_Witness ==
  /\ ~args.tui
  /\ pc = "done"
  /\ calls = << >>
  /\ args.antigravity = "no"
  /\ args.openai = ""
  /\ args.cerebras = Absent
  /\ Range(validation.errors) = {<<"invalid", "openai", "">>, <<"required", "cerebras">>}

-----------------------------------------------------------------------------
(* C19 *)

\* C19: a run renders the configuration summary and the next-step guidance
\* if and only if it ends with exit code 0, a run that ends with exit code 1
\* renders neither, and each capability line of the summary is checked
\* exactly when the flag of the resolved configuration is true.
C19_SummaryIffSuccess ==
  pc = "done" =>
    /\ (exitCode = <<0>>) <=> (Shown("summary") /\ Shown("nextSteps"))
    /\ (exitCode = <<1>>) => (~Shown("summary") /\ ~Shown("nextSteps"))
    /\ \A i \in DOMAIN out :
         out[i].t = "summary" =>
           /\ (out[i].msg[3] = <<"check", "Antigravity">>) <=> config[1].hasAntigravity
           /\ (out[i].msg[4] = <<"check", "OpenAI">>) <=> config[1].hasOpenAI
           /\ (out[i].msg[5] = <<"check", "Cerebras">>) <=> config[1].hasCerebras

-----------------------------------------------------------------------------
(* C20 *)

\* the progress lines runInstall has emitted: those after its header
RunInstallSteps ==
  IF isUpdate = << >> THEN << >>
  ELSE LET h == CHOOSE i \in HeaderLines : \A j \in HeaderLines : i >= j
           IsStep(e) == e.t = "step"
       IN SelectSeq(SubSeq(out, h + 1, Len(out)), IsStep)

\* C20: within runInstall the k-th progress line carries index k, no
\* progress line carries an index greater than the total, and the progress
\* line of writeLiteConfig carries an index equal to the total.
C20_StepCounter ==
  /\ \A k \in DOMAIN RunInstallSteps :
       /\ RunInstallSteps[k].step = k
       /\ RunInstallSteps[k].step <= RunInstallSteps[k].total
       /\ RunInstallSteps[k].total = IF config[1].hasAntigravity THEN 5 ELSE 3
       /\ RunInstallSteps[k].msg = <<"Writing oh-my-opencode-slim configuration...">>
            => RunInstallSteps[k].step = RunInstallSteps[k].total
  /\ Invoked("writeLiteConfig") =>
       RunInstallSteps[Len(RunInstallSteps)].msg
         = <<"Writing oh-my-opencode-slim configuration...">>

C20_Witness ==
  /\ pc = "summary"
  /\ args.tui
  /\ config[1].hasAntigravity
  /\ Len(RunInstallSteps) = 5
  /\ RunInstallSteps[5].step = 5

====
